---------------------------- MODULE Spec2Model ----------------------------
(***************************************************************************)
(* A model of src/main.py: the catalog scraper's crawl_all_products        *)
(* coroutine, its range workers, load_proxies, ProxyRotator.next and the   *)
(* retry loop and backoff of graphql_post_json.                            *)
(*                                                                         *)
(* Fetch 0 is the discovery call made by crawl_all_products itself; fetch  *)
(* i >= 1 is the asyncio worker of pages[i].  Every await of the source    *)
(* is a point where another coroutine may run, so every await separates    *)
(* two actions.                                                            *)
(***************************************************************************)
EXTENDS Integers, Sequences, FiniteSets

(* ------------------------------ bounds --------------------------------- *)
\* window is drawn from 1..MaxWindow
MaxWindow == 2
\* recordsFiltered of the remote collection is drawn from 0..MaxTotal (or absent)
MaxTotal == 3
\* concurrency is drawn from 1..MaxConcurrency
MaxConcurrency == 2
\* the proxy file holds 1..MaxProxies well-formed lines
MaxProxies == 2
\* max_safety_pages, 2000 in the source, is SafetyCap in the runs explored
\* (every page of the fallback plan gets a worker)
SafetyCap == 1
\* the backoff is computed for attempt numbers 1..MaxAttempt
MaxAttempt == 8
\* the loading specification draws proxy files of 0..MaxLines lines
MaxLines == 2
\* the planning-only specification draws window from 1..MaxPlanWindow
MaxPlanWindow == 4
\* the planning-only specification draws total from 0..MaxPlanTotal
MaxPlanTotal == 12
\* max_safety_pages in the planning-only specification
PlanSafetyCap == 3
\* the planner is followed for at most MaxPlanTurns turns of its loop when
\* the window may be zero or negative
MaxPlanTurns == 14

(* ------------------------- program constants --------------------------- *)
\* graphql_post_json(max_retries: int = 4)
max_retries == 4
\* f"products_{f:08d}_{t:08d}.json": minimum field width of both indices
PadWidth == 8

\* max_safety_pages = 2000
DefaultSafetyPages == 2000

\* recordsFiltered missing from the response (search_node.get(..., 0))
Absent == -1
\* ProxyRotator.lock is not held
Free == -1

Min(a, b) == IF a <= b THEN a ELSE b

\* One product of a response.  productId 0 stands for a falsy identifier
\* (missing, null, "" or 0): `if pid and ...` treats them alike.
Product(id, pl) == [productId |-> id, payload |-> pl]

\* The "products" arrays the remote may return for a range.
Batches ==
    { << >>,
      << Product(1, "a") >>,
      << Product(1, "b"), Product(2, "a") >>,
      << Product(0, "a"), Product(2, "b"), Product(2, "a") >> }

\* What makes one attempt of graphql_post_json raise: client.post (network
\* error or timeout), raise_for_status (non-2xx), resp.json (malformed body),
\* an "errors" member, a missing "data" member.
Faults == {"network", "status", "malformed", "errors", "nodata"}

(* ----------------------------- load_proxies ---------------------------- *)
\* A line of the proxy file is a sequence of characters; the file is the
\* sequence of its lines (read_text().splitlines()).

\* line.strip(): leading blanks removed ...
RECURSIVE LStrip(_)
LStrip(s) == IF s # << >> /\ Head(s) = " " THEN LStrip(Tail(s)) ELSE s

\* ... and trailing blanks removed
RECURSIVE RStrip(_)
RStrip(s) ==
    IF s # << >> /\ s[Len(s)] = " " THEN RStrip(SubSeq(s, 1, Len(s) - 1)) ELSE s

Strip(s) == RStrip(LStrip(s))

\* line.split(":"), cur being the field read so far: n separators give
\* n + 1 fields, empty ones included
RECURSIVE Split(_, _)
Split(s, cur) ==
    IF s = << >> THEN << cur >>
    ELSE IF Head(s) = ":" THEN << cur >> \o Split(Tail(s), << >>)
    ELSE Split(Tail(s), Append(cur, Head(s)))

\* host, port, user, pwd = parts; f"http://{user}:{pwd}@{host}:{port}"
ProxyUrl(parts) ==
    << "http://" >> \o parts[3] \o << ":" >> \o parts[4] \o << "@" >>
        \o parts[1] \o << ":" >> \o parts[2]

\* a loader that takes comment lines of four fields too
WellFormed_WithComments(line) ==
    /\ line # << >>
    /\ Len(Split(line, << >>)) = 4

\* if not line or line.startswith("#"): continue
\* if len(parts) != 4: continue
WellFormed(line) ==
    /\ line # << >>
    /\ Head(line) # "#"
    /\ Len(Split(line, << >>)) = 4

\* The proxy URLs of the lines of the file, in file order.
RECURSIVE load_proxies(_)
load_proxies(lines) ==
    IF lines = << >> THEN << >>
    ELSE LET line == Strip(Head(lines))
             rest == load_proxies(Tail(lines))
         IN  IF WellFormed(line)
             THEN << ProxyUrl(Split(line, << >>)) >> \o rest
             ELSE rest

\* host names of the proxies of the runs explored
HostNames == << "h1", "h2", "h3", "h4" >>

\* A proxy file of n well-formed lines, host:port:user:pwd.
ProxyFile(n) ==
    [i \in 1..n |-> << HostNames[i], ":", "p", ":", "u", ":", "w" >>]

\* The proxy URLs load_proxies returned, in file order.
ProxyPool(n) == load_proxies(ProxyFile(n))

\* The lines the proxy files explored are made of: blank, blanks only, a
\* comment, a well-formed line, a well-formed line between blanks, three
\* fields, five fields, four empty fields.
ProxyLines ==
    { << >>,
      << " " >>,
      << "#" >> \o ProxyFile(1)[1],
      ProxyFile(1)[1],
      << " " >> \o ProxyFile(2)[2] \o << " " >>,
      << "h1", ":", "p", ":", "u" >>,
      ProxyFile(1)[1] \o << ":", "x" >>,
      << ":", ":", ":" >> }

\* A file of three well-formed lines with two malformed lines between them.
MixedFile ==
    << ProxyFile(3)[1], << "h1", ":", "p", ":", "u" >>, ProxyFile(3)[2],
       ProxyFile(1)[1] \o << ":", "x" >>, ProxyFile(3)[3] >>

(* ------------------------------- backoff ------------------------------- *)
\* Durations are in tenths of a second.

\* random.uniform(0.0, 0.5): 0.5 * random.random(), with random() < 1
Jitters == 0..4

\* a backoff that doubles: 2, 4, 8, 8, ...
BaseBackoff_Doubling(attempt) ==
    IF attempt >= 3 THEN 80 ELSE IF attempt = 2 THEN 40 ELSE 20

\* min(2.0 * attempt, 8.0)
BaseBackoff(attempt) == Min(20 * attempt, 80)

VARIABLES
    window,          \* crawl_all_products(window)
    concurrency,     \* crawl_all_products(concurrency)
    recordsFiltered, \* the remote's reported total (Absent when it reports none)
    max_safety_pages, \* crawl_all_products.max_safety_pages (a local constant)
    faults,          \* the failures the network and the remote show in this run
    jitters,         \* the values random.uniform shows in this run
    proxy_lines,     \* the lines of the file at proxies_path
    proxies,         \* ProxyRotator.proxies
    idx,             \* ProxyRotator.idx
    lock,            \* ProxyRotator.lock: Free or the fetch holding it
    fetch,           \* per fetch: pc, attempt, proxy_url and last_exc
    sem,             \* free slots of asyncio.Semaphore(concurrency)
    phase,           \* where crawl_all_products is
    abortCause,      \* what ended the run with an exception
    total,           \* crawl_all_products.total
    current,         \* crawl_all_products.current
    pages,           \* crawl_all_products.pages
    files,           \* products_<f>_<t>.json artifacts: fetch number -> array written
    metaWritten,     \* meta.json exists
    resolved,        \* worker tasks in the order they finished (as_completed)
    collected,       \* how many of them the as_completed loop has awaited
    jsonl,           \* lines of products_all.jsonl
    seen,            \* the aggregation's set of identifiers already written
    manifest,        \* << >> or <<the manifest record>>
    draws            \* history: what ProxyRotator.next returned, in return order

vars == << window, concurrency, recordsFiltered, max_safety_pages, faults,
           jitters, proxy_lines, proxies, idx, lock,
           fetch, sem, phase, abortCause, total, current, pages, files,
           metaWritten, resolved, collected, jsonl, seen, manifest, draws >>

config == << window, concurrency, recordsFiltered, max_safety_pages, faults,
            jitters, proxy_lines, proxies >>
rotator == << idx, lock, draws >>
plan == << total, current, pages >>
outputs == << files, metaWritten, jsonl, seen, manifest >>
collection == << resolved, collected >>

(* --------------------------- fetch records ----------------------------- *)
\* raised is history: what the latest failed attempt of the call raised
NewFetch(pc) ==
    [pc |-> pc, attempt |-> 0, proxy_url |-> 0, last_exc |-> "none",
     sleep_s |-> 0, raised |-> "none"]

Workers == DOMAIN fetch \ {0}

\* pcs of a worker that holds a semaphore slot
SlotPcs == {"next_wait", "next_read", "next_adv", "attempt", "sleep"}

Live(t) == fetch[t].pc \in SlotPcs \cup {"sem_wait"}

SetFetch(t, r) == fetch' = [fetch EXCEPT ![t] = r]

EmptyFiles == [i \in {} |-> << >>]

WriteFile(t, arr) ==
    files' = [i \in DOMAIN files \cup {t} |-> IF i = t THEN arr ELSE files[i]]

(* ------------------------------- Init ---------------------------------- *)
\* The state of crawl_all_products when it is about to make the discovery
\* call: the proxies are loaded and the rotator is constructed.
InitRun(windows, widths, reported, faultSet, poolSizes, jitterSet) ==
    /\ window \in windows
    /\ concurrency \in widths
    /\ recordsFiltered \in reported
    /\ max_safety_pages = SafetyCap
    /\ faults = faultSet
    /\ jitters = jitterSet
    /\ \E n \in poolSizes :
          /\ proxy_lines = ProxyFile(n)
          /\ proxies = ProxyPool(n)
    /\ idx = 0
    /\ lock = Free
    /\ fetch = [i \in {0} |-> NewFetch("next_wait")]
    /\ sem = 0
    /\ phase = "Discovering"
    /\ abortCause = "none"
    /\ total = 0
    /\ current = 0
    /\ pages = << >>
    /\ files = EmptyFiles
    /\ metaWritten = FALSE
    /\ resolved = << >>
    /\ collected = 0
    /\ jsonl = << >>
    /\ seen = {}
    /\ manifest = << >>
    /\ draws = << >>

\* Runs in which every failure is a network error.
Init ==
    InitRun(1..MaxWindow, 1..MaxConcurrency, {Absent} \cup (0..MaxTotal),
            {"network"}, 1..MaxProxies, {0})

\* Runs of a few fetches in which an attempt may fail in each of the five
\* ways.
InitPost == InitRun({1}, {1, 2}, {Absent, 3}, Faults, {1}, {0})

(* ------------------- crawl_all_products: load_proxies ------------------ *)
\* proxies = load_proxies(proxies_path); rotator = ProxyRotator(proxies)
\* load_proxies raises when no line gives a proxy, and nothing catches it;
\* otherwise crawl_all_products goes on to the discovery call.
LoadProxies ==
    /\ phase = "Loading"
    /\ LET loaded == load_proxies(proxy_lines)
       IN  IF loaded = << >>
           THEN /\ phase' = "Aborted"
                /\ abortCause' = "config"
                /\ UNCHANGED << proxies, fetch >>
           ELSE /\ proxies' = loaded
                /\ phase' = "Discovering"
                /\ fetch' = [i \in {0} |-> NewFetch("next_wait")]
                /\ UNCHANGED abortCause
    /\ UNCHANGED << window, concurrency, recordsFiltered, max_safety_pages,
                    faults, jitters, proxy_lines, rotator, sem, plan, outputs,
                    collection >>

(* -------------------------- ProxyRotator.next -------------------------- *)
\* a rotator whose lock excludes nobody
LockFree_Always == TRUE

\* `async with self.lock`: the lock is taken only when nobody holds it.
LockFree == lock = Free

NextAcquire(t) ==
    /\ fetch[t].pc = "next_wait"
    /\ LockFree
    /\ lock' = t
    /\ SetFetch(t, [fetch[t] EXCEPT !.pc = "next_read"])
    /\ UNCHANGED << config, idx, draws, sem, phase, abortCause, plan, outputs,
                    collection >>

\* p = self.proxies[self.idx]   (None when the pool is empty)
NextRead(t) ==
    /\ fetch[t].pc = "next_read"
    /\ SetFetch(t, [fetch[t] EXCEPT
          !.pc = "next_adv",
          !.proxy_url = IF Len(proxies) = 0 THEN 0 ELSE proxies[idx + 1]])
    /\ UNCHANGED << config, rotator, sem, phase, abortCause, plan, outputs,
                    collection >>

\* self.idx = (self.idx + 1) % self.n
Advance(i, n) == (i + 1) % n

\* The cursor advances, the lock is released and next() returns p; the caller
\* enters graphql_post_json and issues the first client.post with no await in
\* between.
NextAdvance(t) ==
    /\ fetch[t].pc = "next_adv"
    /\ idx' = IF Len(proxies) = 0 THEN idx ELSE Advance(idx, Len(proxies))
    /\ lock' = Free
    /\ draws' = Append(draws, fetch[t].proxy_url)
    /\ SetFetch(t, [fetch[t] EXCEPT !.pc = "attempt", !.attempt = 1])
    /\ UNCHANGED << config, sem, phase, abortCause, plan, outputs, collection >>

(* -------------------------- graphql_post_json -------------------------- *)
\* One attempt raises: `except Exception` keeps the cause, sleep_s is
\* computed and the backoff sleep starts.
AttemptFails(t) ==
    /\ fetch[t].pc = "attempt"
    /\ \E f \in faults, j \in jitters :
          SetFetch(t, [fetch[t] EXCEPT
             !.pc = "sleep", !.last_exc = f, !.raised = f,
             !.sleep_s = BaseBackoff(fetch[t].attempt) + j])
    /\ UNCHANGED << config, rotator, sem, phase, abortCause, plan, outputs,
                    collection >>

\* a loop that runs once too often
MoreAttempts_OneMore(a) == a <= max_retries

\* for attempt in range(1, max_retries + 1): is there an attempt after a?
MoreAttempts(a) == a < max_retries

\* asyncio.sleep(sleep_s) ends and the loop issues the next client.post with
\* the proxy_url the call was given.
BackoffEnds(t) ==
    /\ fetch[t].pc = "sleep"
    /\ MoreAttempts(fetch[t].attempt)
    /\ SetFetch(t, [fetch[t] EXCEPT !.pc = "attempt", !.attempt = @ + 1])
    /\ UNCHANGED << config, rotator, sem, phase, abortCause, plan, outputs,
                    collection >>

(* ---------------------- crawl_all_products: discovery ------------------ *)
\* total = search_node.get("recordsFiltered", 0) or 0
\* if total == 0 and products_first: total = len(products_first)
InferTotal(reported, products_first) ==
    LET t0 == IF reported = Absent THEN 0 ELSE reported
    IN  IF t0 = 0 /\ Len(products_first) > 0 THEN Len(products_first) ELSE t0

\* The discovery call returns data: total is computed, meta.json and the
\* first artifact are written, the semaphore is made and planning starts.
DiscoverySucceeds ==
    /\ phase = "Discovering"
    /\ fetch[0].pc = "attempt"
    /\ \E products_first \in Batches :
          /\ total' = InferTotal(recordsFiltered, products_first)
          /\ WriteFile(0, products_first)
    /\ metaWritten' = TRUE
    /\ sem' = concurrency
    /\ current' = window
    /\ pages' = << >>
    /\ phase' = "Planning"
    /\ SetFetch(0, NewFetch("done"))
    /\ UNCHANGED << config, rotator, abortCause, collection, jsonl, seen,
                    manifest >>

\* a crawl that takes a failed discovery call for an empty first page
DiscoveryExhausted_Continues ==
    /\ phase = "Discovering"
    /\ fetch[0].pc = "sleep"
    /\ ~MoreAttempts(fetch[0].attempt)
    /\ SetFetch(0, [fetch[0] EXCEPT !.pc = "failed"])
    /\ total' = 0
    /\ sem' = concurrency
    /\ current' = window
    /\ pages' = << >>
    /\ phase' = "Planning"
    /\ UNCHANGED << config, rotator, abortCause, outputs, collection >>

\* The last backoff of the discovery call ends and graphql_post_json raises:
\* nothing in crawl_all_products catches it.
DiscoveryExhausted ==
    /\ phase = "Discovering"
    /\ fetch[0].pc = "sleep"
    /\ ~MoreAttempts(fetch[0].attempt)
    /\ SetFetch(0, [fetch[0] EXCEPT !.pc = "failed"])
    /\ phase' = "Aborted"
    /\ abortCause' = "discovery"
    /\ UNCHANGED << config, rotator, sem, plan, outputs, collection >>

(* ---------------------- crawl_all_products: planning ------------------- *)
\* if total and total > window:
KnownTotal == total # 0 /\ total > window

\* a planner that forgets to clip the last range
ClippedRange_Unclipped(cur, w, last_index) == << cur, cur + w - 1 >>

\* f = current; t = min(current + window - 1, last_index)
ClippedRange(cur, w, last_index) == << cur, Min(cur + w - 1, last_index) >>

\* One turn of `while current <= last_index`.
PlanKnownStep ==
    /\ phase = "Planning"
    /\ KnownTotal
    /\ current <= total - 1
    /\ LET r == ClippedRange(current, window, total - 1)
       IN  /\ pages' = Append(pages, r)
           /\ current' = r[2] + 1
    /\ UNCHANGED << config, rotator, fetch, sem, phase, abortCause, total,
                    outputs, collection >>

\* a fallback that starts one window early
OpenRange_Rewound(cur, w) == << cur - w, cur - 1 >>

\* a fallback whose ranges are one index too long
OpenRange_Long(cur, w) == << cur, cur + w >>

\* f = current; t = current + window - 1
OpenRange(cur, w) == << cur, cur + w - 1 >>

\* One turn of `for _ in range(max_safety_pages)`.
PlanFallbackStep ==
    /\ phase = "Planning"
    /\ ~KnownTotal
    /\ Len(pages) < max_safety_pages
    /\ LET r == OpenRange(current, window)
       IN  /\ pages' = Append(pages, r)
           /\ current' = r[2] + 1
    /\ UNCHANGED << config, rotator, fetch, sem, phase, abortCause, total,
                    outputs, collection >>

PlanComplete ==
    IF KnownTotal THEN current > total - 1 ELSE Len(pages) >= max_safety_pages

\* for f, t in pages: tasks.append(asyncio.create_task(worker(f, t)))
StartFetching ==
    /\ phase = "Planning"
    /\ PlanComplete
    /\ fetch' = [i \in 0..Len(pages) |->
                    IF i = 0 THEN fetch[0] ELSE NewFetch("sem_wait")]
    /\ phase' = "Fetching"
    /\ UNCHANGED << config, rotator, sem, abortCause, plan, outputs,
                    collection >>

(* ------------------------- crawl_all_products.worker ------------------- *)
\* a semaphore that never blocks
SlotFree_Always == TRUE

\* `async with sem`: a slot is taken only when one is free.
SlotFree == sem > 0

AcquireSem(t) ==
    /\ t \in Workers
    /\ fetch[t].pc = "sem_wait"
    /\ SlotFree
    /\ sem' = sem - 1
    /\ SetFetch(t, [fetch[t] EXCEPT !.pc = "next_wait"])
    /\ UNCHANGED << config, rotator, phase, abortCause, plan, outputs,
                    collection >>

\* fetch_page returns: the worker writes its artifact, leaves `async with
\* sem` and its task is done.
WorkerSucceeds(t) ==
    /\ t \in Workers
    /\ fetch[t].pc = "attempt"
    /\ \E prods \in Batches : WriteFile(t, prods)
    /\ sem' = sem + 1
    /\ resolved' = Append(resolved, t)
    /\ SetFetch(t, NewFetch("done"))
    /\ UNCHANGED << config, rotator, phase, abortCause, plan, metaWritten,
                    jsonl, seen, manifest, collected >>

\* a retry loop that raises as soon as the last attempt has failed
WorkerExhausted_NoSleep(t) ==
    /\ t \in Workers
    /\ fetch[t].pc = "attempt"
    /\ ~MoreAttempts(fetch[t].attempt)
    /\ sem' = sem + 1
    /\ resolved' = Append(resolved, t)
    /\ SetFetch(t, [fetch[t] EXCEPT !.pc = "failed"])
    /\ UNCHANGED << config, rotator, phase, abortCause, plan, outputs,
                    collected >>

\* The last backoff ends and graphql_post_json raises: the exception leaves
\* fetch_page and worker (releasing the slot) and becomes the task's result.
WorkerExhausted(t) ==
    /\ t \in Workers
    /\ fetch[t].pc = "sleep"
    /\ ~MoreAttempts(fetch[t].attempt)
    /\ sem' = sem + 1
    /\ resolved' = Append(resolved, t)
    /\ SetFetch(t, [fetch[t] EXCEPT !.pc = "failed"])
    /\ UNCHANGED << config, rotator, phase, abortCause, plan, outputs,
                    collected >>

(* -------------------- crawl_all_products: as_completed ----------------- *)
\* got = await coro, for a task that returned
CollectResult ==
    /\ phase = "Fetching"
    /\ collected < Len(resolved)
    /\ fetch[resolved[collected + 1]].pc = "done"
    /\ collected' = collected + 1
    /\ UNCHANGED << config, rotator, fetch, sem, phase, abortCause, plan,
                    outputs, resolved >>

\* got = await coro, for a task that raised: the exception is re-raised in
\* crawl_all_products, which has no handler.
CollectRaises ==
    /\ phase = "Fetching"
    /\ collected < Len(resolved)
    /\ fetch[resolved[collected + 1]].pc = "failed"
    /\ phase' = "Aborted"
    /\ abortCause' = "range"
    /\ UNCHANGED << config, rotator, fetch, sem, plan, outputs, collection >>

\* asyncio.run(...) ends with the exception: the tasks still pending are
\* cancelled.  CancelledError is no Exception, so the retry loop lets it
\* through and both context managers release what they hold.
CancelAll ==
    /\ phase = "Aborted"
    /\ \E t \in DOMAIN fetch : Live(t)
    /\ fetch' = [t \in DOMAIN fetch |->
                    IF Live(t) THEN NewFetch("cancelled")
                    ELSE fetch[t]]
    /\ sem' = sem + Cardinality({t \in DOMAIN fetch : fetch[t].pc \in SlotPcs})
    /\ lock' = Free
    /\ UNCHANGED << config, idx, draws, phase, abortCause, plan, outputs,
                    collection >>

(* -------------------- crawl_all_products: aggregation ------------------ *)
RECURSIVE Digits(_)
\* the decimal digits of n >= 0
Digits(n) == IF n < 10 THEN << n >> ELSE Append(Digits(n \div 10), n % 10)

RECURSIVE ZeroFill(_, _)
ZeroFill(d, width) == IF Len(d) >= width THEN d ELSE ZeroFill(<< 0 >> \o d, width)

\* The part of the artifact's name that differs between artifacts,
\* "<f:08d>_<t:08d>.json", as character ranks: '.' < '0'..'9' < '_'.
FileName(r) ==
    ZeroFill(Digits(r[1]), PadWidth) \o << 10 >>
        \o ZeroFill(Digits(r[2]), PadWidth) \o << -1 >>

RECURSIVE StrLess(_, _)
\* a < b, as Python compares strings
StrLess(a, b) ==
    IF b = << >> THEN FALSE
    ELSE IF a = << >> THEN TRUE
    ELSE IF Head(a) # Head(b) THEN Head(a) < Head(b)
    ELSE StrLess(Tail(a), Tail(b))

\* the range whose artifact fetch i writes
PageOf(i) == IF i = 0 THEN << 0, window - 1 >> ELSE pages[i]

RECURSIVE SortedParts_Descending(_)
\* a sort with the comparison reversed
SortedParts_Descending(S) ==
    IF S = {} THEN << >>
    ELSE LET m == CHOOSE i \in S :
                     \A j \in S : ~StrLess(FileName(PageOf(i)), FileName(PageOf(j)))
         IN  << m >> \o SortedParts_Descending(S \ {m})

RECURSIVE SortedParts(_)
\* sorted(base_out.glob("products_*.json")), as fetch numbers
SortedParts(S) ==
    IF S = {} THEN << >>
    ELSE LET m == CHOOSE i \in S :
                     \A j \in S : ~StrLess(FileName(PageOf(j)), FileName(PageOf(i)))
         IN  << m >> \o SortedParts(S \ {m})

\* a filter that takes falsy identifiers for identifiers
Keep_Falsy(p, seenIds) == p.productId \notin seenIds

\* a filter that forgets the identifiers already written
Keep_Unseen(p, seenIds) == p.productId # 0

\* if pid and pid not in seen
Keep(p, seenIds) == p.productId # 0 /\ p.productId \notin seenIds

\* seen.add(pid); w.write(...)
Emit(acc, p) == [seen |-> acc.seen \cup {p.productId}, out |-> Append(acc.out, p)]

RECURSIVE MergeArr(_, _)
\* for p in arr
MergeArr(arr, acc) ==
    IF arr = << >> THEN acc
    ELSE MergeArr(Tail(arr),
                  IF Keep(Head(arr), acc.seen) THEN Emit(acc, Head(arr)) ELSE acc)

RECURSIVE MergeParts(_, _, _)
\* for part in <order>
MergeParts(order, content, acc) ==
    IF order = << >> THEN acc
    ELSE MergeParts(Tail(order), content, MergeArr(content[Head(order)], acc))

\* an aggregation that reads the artifacts as their fetches resolved
PartOrder_Completion == << 0 >> \o resolved

\* the order in which the aggregation reads the artifacts
PartOrder == SortedParts(DOMAIN files)

\* an aggregation that does not wait for the as_completed loop to end
Aggregate_Early ==
    /\ phase = "Fetching"
    /\ LET r == MergeParts(PartOrder, files, [seen |-> {}, out |-> << >>])
       IN  /\ jsonl' = r.out
           /\ seen' = r.seen
    /\ phase' = "Aggregating"
    /\ UNCHANGED << config, rotator, fetch, sem, abortCause, plan, files,
                    metaWritten, manifest, collection >>

\* The as_completed loop has awaited every task: products_all.jsonl is
\* written from the artifacts.
Aggregate ==
    /\ phase = "Fetching"
    /\ collected = Len(pages)
    /\ LET r == MergeParts(PartOrder, files, [seen |-> {}, out |-> << >>])
       IN  /\ jsonl' = r.out
           /\ seen' = r.seen
    /\ phase' = "Aggregating"
    /\ UNCHANGED << config, rotator, fetch, sem, abortCause, plan, files,
                    metaWritten, manifest, collection >>

\* manifest.json
WriteManifest ==
    /\ phase = "Aggregating"
    /\ manifest' = << [pages_written |-> Cardinality(DOMAIN files),
                       unique_products |-> Cardinality(seen)] >>
    /\ phase' = "Done"
    /\ UNCHANGED << config, rotator, fetch, sem, abortCause, plan, files,
                    metaWritten, jsonl, seen, collection >>

(* ------------------------------- Next ---------------------------------- *)
Next ==
    \/ \E t \in DOMAIN fetch : NextAcquire(t)
    \/ \E t \in DOMAIN fetch : NextRead(t)
    \/ \E t \in DOMAIN fetch : NextAdvance(t)
    \/ \E t \in DOMAIN fetch : AttemptFails(t)
    \/ \E t \in DOMAIN fetch : BackoffEnds(t)
    \/ DiscoverySucceeds
    \/ DiscoveryExhausted
    \/ PlanKnownStep
    \/ PlanFallbackStep
    \/ StartFetching
    \/ \E t \in DOMAIN fetch : AcquireSem(t)
    \/ \E t \in DOMAIN fetch : WorkerSucceeds(t)
    \/ \E t \in DOMAIN fetch : WorkerExhausted(t)
    \/ CollectResult
    \/ CollectRaises
    \/ CancelAll
    \/ Aggregate
    \/ WriteManifest

Spec == Init /\ [][Next]_vars

SpecPost == InitPost /\ [][Next]_vars

(* ----------------------- planning on its own --------------------------- *)
\* The states in which planning starts: the discovery call has returned an
\* empty page and the reported total, meta.json and the first artifact are
\* written.  (48, 500) is the default window with a catalog of 500 records.
InitPlanning(cases) ==
    /\ \E wt \in cases :
          /\ window = wt[1]
          /\ total = wt[2]
          /\ max_safety_pages = wt[3]
    /\ recordsFiltered = total
    /\ concurrency = 1
    /\ faults = {"network"}
    /\ jitters = {0}
    /\ proxy_lines = ProxyFile(1)
    /\ proxies = ProxyPool(1)
    /\ idx = 0
    /\ lock = Free
    /\ fetch = [i \in {0} |-> NewFetch("done")]
    /\ sem = concurrency
    /\ phase = "Planning"
    /\ abortCause = "none"
    /\ current = window
    /\ pages = << >>
    /\ files = [i \in {0} |-> << >>]
    /\ metaWritten = TRUE
    /\ resolved = << >>
    /\ collected = 0
    /\ jsonl = << >>
    /\ seen = {}
    /\ manifest = << >>
    /\ draws = << ProxyPool(1)[1] >>

\* the windows and totals explored with max_safety_pages = PlanSafetyCap
SmallPlans == (1..MaxPlanWindow) \X (0..MaxPlanTotal) \X {PlanSafetyCap}

InitPlan == InitPlanning(SmallPlans \cup {<< 48, 500, PlanSafetyCap >>})

NextPlan ==
    \/ PlanKnownStep
    \/ PlanFallbackStep
    \/ StartFetching

SpecPlan == InitPlan /\ [][NextPlan]_vars

\* Planning for every window the command line accepts (--window is any
\* int, src/main.py:317): zero and negative windows too.  The known-total
\* loop is followed for MaxPlanTurns turns at most.
InitPlanAny ==
    InitPlanning(((-2)..MaxPlanWindow) \X (0..MaxPlanTotal) \X {PlanSafetyCap})

NextPlanAny ==
    \/ Len(pages) < MaxPlanTurns /\ PlanKnownStep
    \/ PlanFallbackStep
    \/ StartFetching

SpecPlanAny == InitPlanAny /\ [][NextPlanAny]_vars

\* The same with, besides, the default window and the source's
\* max_safety_pages for a total that is absent and a total of one window.
InitFallback ==
    InitPlanning(SmallPlans \cup {<< 48, 0, DefaultSafetyPages >>,
                                  << 48, 48, DefaultSafetyPages >>})

SpecFallback == InitFallback /\ [][NextPlan]_vars

(* ------------------------- runs with jitter ---------------------------- *)
\* Runs of a few fetches in which random.uniform shows every value of
\* Jitters.
InitBackoff == InitRun({1}, {1, 2}, {Absent, 3}, {"network"}, {1}, Jitters)

SpecBackoff == InitBackoff /\ [][Next]_vars

(* ------------------- loading and discovery alone ----------------------- *)
\* crawl_all_products from the call of load_proxies to the end of the
\* discovery call, the proxy file being any file of up to MaxLines lines of
\* ProxyLines, or MixedFile.
InitLoad ==
    /\ window = 1
    /\ concurrency = 1
    /\ recordsFiltered = 0
    /\ max_safety_pages = SafetyCap
    /\ faults = {"network"}
    /\ jitters = {0}
    /\ proxy_lines \in UNION {[1..n -> ProxyLines] : n \in 0..MaxLines}
                           \cup {MixedFile}
    /\ proxies = << >>
    /\ idx = 0
    /\ lock = Free
    /\ fetch = [i \in {0} |-> NewFetch("pending")]
    /\ sem = 0
    /\ phase = "Loading"
    /\ abortCause = "none"
    /\ total = 0
    /\ current = 0
    /\ pages = << >>
    /\ files = EmptyFiles
    /\ metaWritten = FALSE
    /\ resolved = << >>
    /\ collected = 0
    /\ jsonl = << >>
    /\ seen = {}
    /\ manifest = << >>
    /\ draws = << >>

NextLoad ==
    \/ LoadProxies
    \/ NextAcquire(0)
    \/ NextRead(0)
    \/ NextAdvance(0)
    \/ AttemptFails(0)
    \/ BackoffEnds(0)
    \/ DiscoverySucceeds
    \/ DiscoveryExhausted

SpecLoad == InitLoad /\ [][NextLoad]_vars

(* ======================================================================= *)
(* Properties                                                              *)
(* ======================================================================= *)
AfterPlanning == phase \in {"Fetching", "Aggregating", "Done", "Aborted"} /\ metaWritten

\* C1: a range fetch that exhausts its retries does not abort the run: once
\* a worker has failed, crawl_all_products is still fetching, aggregating or
\* done, no sibling worker is cancelled, and a finished run has written
\* products_all.jsonl and the manifest.
C1_RangeFailureDoesNotAbort ==
    (\E t \in Workers : fetch[t].pc = "failed") =>
        /\ phase \in {"Fetching", "Aggregating", "Done"}
        /\ \A u \in Workers : fetch[u].pc # "cancelled"

(* ---------------------------------------------------------------------- *)
\* the number of indices of range r
Size(r) == r[2] - r[1] + 1

\* p lists, in increasing order, ranges that partition lo..hi, each of w
\* indices except possibly the last
Partitions(p, w, lo, hi) ==
    /\ Len(p) >= 1
    /\ p[1][1] = lo
    /\ p[Len(p)][2] = hi
    /\ \A i \in 1..Len(p) : p[i][1] <= p[i][2]
    /\ \A i \in 1..(Len(p) - 1) :
          /\ p[i + 1][1] = p[i][2] + 1
          /\ Size(p[i]) = w
    /\ Size(p[Len(p)]) <= w

\* C2: for W >= 1 and a discovered total T > W the finished plan partitions
\* W..T-1: increasing, first range from W, each next range from the previous
\* to + 1, every range but the last of W indices, last to = T-1; with T = 500
\* and W = 48 the plan is [48,95], [96,143], ..., [480,499].
C2_PlanPartitions ==
    (phase = "Fetching" /\ total > window) =>
        /\ Partitions(pages, window, window, total - 1)
        /\ (window = 48 /\ total = 500) =>
              pages = [i \in 1..10 |->
                          << 48 * i, IF i = 10 THEN 499 ELSE 48 * i + 47 >>]

\* C2's case: a finished plan of three ranges or more whose last range is
\* cut short.
C2_Witness ==
    /\ phase = "Fetching"
    /\ total > window
    /\ Len(pages) >= 3
    /\ Size(pages[Len(pages)]) < window

(* ---------------------------------------------------------------------- *)
\* the discovery page held records and the reported total was zero or absent
TotalInferred == recordsFiltered \in {Absent, 0} /\ 0 \in DOMAIN files /\ Len(files[0]) > 0

\* C3: when the discovery page returns k > 0 records and the reported total
\* is zero or absent, the total is k and no range is planned: no fetch other
\* than the discovery call exists.
C3_InferredTotalPlansNothing ==
    (AfterPlanning /\ TotalInferred) =>
        /\ total = Len(files[0])
        /\ pages = << >>
        /\ DOMAIN fetch = {0}

(* ---------------------------------------------------------------------- *)
\* C4: a call of graphql_post_json whose attempts all fail makes exactly
\* max_retries attempts, numbered 1, 2, ..., each retry following a failed
\* attempt, and then fails with the cause the last attempt raised; a call
\* that has returned or failed makes no further attempt.
C4_ExactlyMaxRetries ==
    /\ [](\A t \in DOMAIN fetch :
            /\ fetch[t].attempt <= max_retries
            /\ fetch[t].pc = "failed" =>
                  /\ fetch[t].attempt = max_retries
                  /\ fetch[t].last_exc \in Faults
                  /\ fetch[t].last_exc = fetch[t].raised)
    /\ [][\A t \in DOMAIN fetch :
            /\ (fetch'[t].pc = "attempt" /\ fetch[t].pc # "attempt") =>
                  /\ fetch'[t].attempt = fetch[t].attempt + 1
                  /\ fetch[t].pc = "sleep" \/ fetch[t].attempt = 0
            /\ fetch[t].pc \in {"done", "failed"} => fetch'[t] = fetch[t]]_vars

\* C4's case: the discovery call has returned and a range's call has failed
\* after max_retries attempts, the last of them for a missing "data" member.
C4_Witness ==
    /\ fetch[0].pc = "done"
    /\ \E t \in Workers :
          /\ fetch[t].pc = "failed"
          /\ fetch[t].attempt = max_retries
          /\ fetch[t].last_exc = "nodata"

(* ---------------------------------------------------------------------- *)
\* the fetches that issue a client.post in this step
Posting == {t \in DOMAIN fetch : fetch'[t].pc = "attempt" /\ fetch[t].pc # "attempt"}

\* C5: every network attempt draws its own proxy: each step advances the
\* rotator's cursor exactly as many times as it issues network attempts, so
\* the number of draws always equals the number of attempts made so far.
C5_EveryAttemptDraws ==
    [][Cardinality(Posting) = Len(draws') - Len(draws)]_vars

(* ---------------------------------------------------------------------- *)
\* C6: the k-th call of ProxyRotator.next to return (k = 0, 1, ...) returns
\* the address at position k mod N and leaves the cursor at (k+1) mod N,
\* whatever the interleaving of the callers.
C6_RoundRobin ==
    /\ \A k \in 1..Len(draws) : draws[k] = proxies[((k - 1) % Len(proxies)) + 1]
    /\ idx = Len(draws) % Len(proxies)

\* C6's case: with two proxies, two workers in flight at once have drawn
\* after the discovery call, and the third draw wrapped to the first address.
C6_Witness ==
    /\ Len(proxies) = 2
    /\ draws = << proxies[1], proxies[2], proxies[1] >>
    /\ Cardinality({t \in Workers : fetch[t].pc \in {"attempt", "sleep"}}) = 2

(* ---------------------------------------------------------------------- *)
\* the range fetches in flight: workers that hold a semaphore slot
InFlight == {t \in Workers : fetch[t].pc \in SlotPcs}

\* C7: at most `concurrency` range fetches are in flight, once the semaphore
\* is made (the discovery call has returned) the free and the held slots add
\* up to `concurrency`, and a worker waiting for a slot has drawn no proxy
\* and made no attempt.
C7_BoundedInFlight ==
    /\ Cardinality(InFlight) <= concurrency
    /\ sem >= 0
    /\ fetch[0].pc = "done" => sem + Cardinality(InFlight) = concurrency
    /\ \A t \in Workers :
          fetch[t].pc = "sem_wait" => fetch[t].attempt = 0 /\ fetch[t].proxy_url = 0

\* C7's case: every slot is held, one holder is in a backoff sleep, and a
\* further worker waits for a slot.
C7_Witness ==
    /\ phase = "Fetching"
    /\ Cardinality(InFlight) = concurrency
    /\ \E t \in InFlight : fetch[t].pc = "sleep"
    /\ \E t \in Workers : fetch[t].pc = "sem_wait"

(* ---------------------------------------------------------------------- *)
\* the truthy identifiers of an array of products
IdsOf(arr) == {arr[i].productId : i \in DOMAIN arr} \ {0}

NothingMerged == [seen |-> {}, out |-> << >>]

\* two artifacts hold the same identifier with different payloads
CrossDuplicate ==
    \E i, j \in DOMAIN files : \E a \in DOMAIN files[i], b \in DOMAIN files[j] :
       /\ i # j
       /\ files[i][a].productId # 0
       /\ files[i][a].productId = files[j][b].productId
       /\ files[i][a].payload # files[j][b].payload

\* C8: products_all.jsonl holds each identifier at most once, its identifiers
\* are the set `seen` the manifest counts, and merging every artifact a second
\* time changes neither the identifiers nor the lines: a record met again,
\* with the same or another payload, is dropped.
C8_DedupIdempotent ==
    phase \in {"Aggregating", "Done"} =>
        /\ \A i, j \in 1..Len(jsonl) :
              i # j => jsonl[i].productId # jsonl[j].productId
        /\ {jsonl[i].productId : i \in 1..Len(jsonl)} = seen
        /\ Cardinality(seen) = Len(jsonl)
        /\ LET twice == MergeParts(PartOrder \o PartOrder, files, NothingMerged)
           IN  twice.seen = seen /\ twice.out = jsonl
        /\ phase = "Done" => manifest[1].unique_products = Len(jsonl)

\* C8's case: a finished run in which one artifact holds an identifier twice
\* and two artifacts hold the same identifier with different payloads.
C8_Witness ==
    /\ phase = "Done"
    /\ \E i \in DOMAIN files : \E a, b \in DOMAIN files[i] :
          /\ a < b
          /\ files[i][a].productId = files[i][b].productId
    /\ CrossDuplicate

(* ---------------------------------------------------------------------- *)
\* the fetches by ascending range: the discovery range, then pages in order
RangeOrder == [i \in 1..(Len(pages) + 1) |-> i - 1]

\* C9: the consolidated output and the manifest's unique count are a
\* function of the per-range responses alone (merged by ascending range),
\* whatever the order in which the workers finished.
C9_OrderIndependent ==
    phase = "Done" =>
        LET byRange == MergeParts(RangeOrder, files, NothingMerged)
        IN  /\ DOMAIN files = 0..Len(pages)
            /\ jsonl = byRange.out
            /\ manifest[1].unique_products = Cardinality(byRange.seen)

\* C9's case: a finished run whose second range resolved before the first,
\* the two holding the same identifier with different payloads.
C9_Witness ==
    /\ phase = "Done"
    /\ resolved = << 2, 1 >>
    /\ \E a \in DOMAIN files[1], b \in DOMAIN files[2] :
          /\ files[1][a].productId # 0
          /\ files[1][a].productId = files[2][b].productId
          /\ files[1][a].payload # files[2][b].payload

(* ---------------------------------------------------------------------- *)
\* the first product of arr with identifier id
FirstIn(arr, id) ==
    arr[CHOOSE i \in DOMAIN arr :
           /\ arr[i].productId = id
           /\ \A j \in 1..(i - 1) : arr[j].productId # id]

\* the first fetch of `order` whose artifact holds identifier id
FirstWith(order, id) ==
    order[CHOOSE k \in DOMAIN order :
             /\ id \in IdsOf(files[order[k]])
             /\ \A j \in 1..(k - 1) : id \notin IdsOf(files[order[j]])]

\* every line of products_all.jsonl is the first record with its identifier
\* in the first artifact of `order` that holds the identifier
FirstWriterWins(order) ==
    \A k \in 1..Len(jsonl) :
       LET id == jsonl[k].productId
       IN  jsonl[k] = FirstIn(files[FirstWith(order, id)], id)

\* C10 as stated: the record kept for an identifier comes from the range
\* whose fetch resolved first (the discovery page before every worker).
C10_FirstResolvedWins ==
    phase = "Done" => FirstWriterWins(<< 0 >> \o resolved)

\* C10 as the code has it: the record kept for an identifier comes from the
\* lowest range that returned it, whatever the completion order.
C10_LowestRangeWins ==
    phase = "Done" => FirstWriterWins(RangeOrder)

\* C10's case: the range that resolved first is not the lowest range, and
\* the record kept for an identifier it returned is not its own.
C10_Witness ==
    /\ phase = "Done"
    /\ Len(resolved) >= 2
    /\ resolved[1] # 1
    /\ \E k \in 1..Len(jsonl) :
          /\ jsonl[k].productId \in IdsOf(files[resolved[1]])
          /\ jsonl[k] # FirstIn(files[resolved[1]], jsonl[k].productId)
          /\ jsonl[k].productId \notin IdsOf(files[0])

(* ---------------------------------------------------------------------- *)
\* C11: when the discovery call exhausts its retries the run aborts and
\* nothing more happens: no range is planned, no range fetch exists, the
\* rotator has been drawn from once only, and neither meta.json, an artifact,
\* products_all.jsonl nor the manifest is written.
C11_DiscoveryFailureAborts ==
    fetch[0].pc = "failed" =>
        /\ phase = "Aborted"
        /\ abortCause = "discovery"
        /\ ~ENABLED Next
        /\ pages = << >>
        /\ Workers = {}
        /\ Len(draws) = 1
        /\ files = EmptyFiles
        /\ ~metaWritten
        /\ jsonl = << >>
        /\ manifest = << >>

\* C11's case: the discovery call has failed after max_retries attempts, in
\* a run with two proxies and a total that would have needed range fetches.
C11_Witness ==
    /\ fetch[0].pc = "failed"
    /\ fetch[0].attempt = max_retries
    /\ Len(proxies) = 2
    /\ recordsFiltered > window

(* ---------------------------------------------------------------------- *)
\* the number of ":" in a line
Colons(line) == Cardinality({i \in 1..Len(line) : line[i] = ":"})

\* a line of exactly four ":"-separated fields that is neither blank nor a
\* comment
FourFields(line) ==
    LET inked == {i \in 1..Len(line) : line[i] # " "}
    IN  /\ inked # {}
        /\ \A i \in inked : (\A j \in inked : i <= j) => line[i] # "#"
        /\ Colons(line) = 3

\* C12: nothing is asked of the rotator or the network before the proxy
\* file is loaded; a file with no well-formed line aborts the run with the
\* loader's error before any rotation step and any network attempt;
\* otherwise the pool is the URLs of exactly the well-formed lines, in file
\* order, the other lines being skipped (MixedFile gives a pool of three).
C12_ProxyLoading ==
    LET good == SelectSeq(proxy_lines, FourFields)
        untouched == /\ draws = << >>
                     /\ idx = 0
                     /\ lock = Free
                     /\ fetch[0].pc = "pending"
                     /\ fetch[0].attempt = 0
    IN  /\ phase = "Loading" => untouched /\ abortCause = "none"
        /\ (phase # "Loading" /\ good = << >>) =>
              /\ phase = "Aborted"
              /\ abortCause = "config"
              /\ untouched
              /\ ~ENABLED NextLoad
        /\ (phase # "Loading" /\ good # << >>) =>
              /\ abortCause # "config"
              /\ Len(proxies) = Len(good)
              /\ \A k \in 1..Len(good) :
                    proxies[k] = ProxyUrl(Split(Strip(good[k]), << >>))
              /\ proxy_lines = MixedFile =>
                    proxies = << ProxyPool(3)[1], ProxyPool(3)[2], ProxyPool(3)[3] >>

\* C12's case: the file of three well-formed and two malformed lines is
\* loaded and the discovery call has drawn the first proxy.
C12_Witness ==
    /\ proxy_lines = MixedFile
    /\ Len(proxies) = 3
    /\ draws = << proxies[1] >>

(* ---------------------------------------------------------------------- *)
\* the place of a phase in the order of crawl_all_products
PhaseRank(p) ==
    CASE p = "Loading" -> 0
      [] p = "Discovering" -> 1
      [] p = "Planning" -> 2
      [] p = "Fetching" -> 3
      [] p = "Aggregating" -> 4
      [] p = "Done" -> 5
      [] p = "Aborted" -> 6

\* C13: a run moves forward only, Discovering, Planning, Fetching,
\* Aggregating, Done (or it aborts): a range is planned only after the
\* discovery call returned, a worker exists only once the plan is complete,
\* products_all.jsonl is written only when every planned range's worker has
\* returned and been awaited, the manifest only after that, and a phase once
\* left is not entered again.
C13_ForwardOnly ==
    /\ [](/\ pages # << >> => fetch[0].pc = "done" /\ 0 \in DOMAIN files
          /\ PhaseRank(phase) <= 2 =>
                Workers = {} /\ jsonl = << >> /\ seen = {} /\ collected = 0
          /\ Workers # {} => PlanComplete /\ Workers = 1..Len(pages)
          /\ phase \in {"Aggregating", "Done"} =>
                /\ collected = Len(pages)
                /\ \A t \in Workers : fetch[t].pc = "done" /\ t \in DOMAIN files
          /\ manifest # << >> <=> phase = "Done")
    /\ [][/\ phase' # phase =>
                \/ phase' = "Aborted"
                \/ PhaseRank(phase') = PhaseRank(phase) + 1
          /\ pages' # pages => phase = "Planning" /\ phase' = "Planning"
          /\ (\E t \in Workers : fetch'[t] # fetch[t]) =>
                phase \in {"Fetching", "Aborted"}
          /\ (jsonl' # jsonl \/ seen' # seen) =>
                phase = "Fetching" /\ phase' = "Aggregating"
          /\ phase \in {"Done", "Aborted"} => phase' = phase]_vars

\* C13's case: a run of two range fetches has gone through every phase
\* and written a non-empty products_all.jsonl and the manifest.
C13_Witness ==
    /\ phase = "Done"
    /\ Len(pages) = 2
    /\ jsonl # << >>
    /\ manifest # << >>
    /\ resolved = << 1, 2 >>

(* ---------------------------------------------------------------------- *)
\* the run has ended: with the manifest written, or with an exception and
\* no coroutine left
Stopped ==
    \/ phase = "Done"
    \/ phase = "Aborted" /\ \A t \in DOMAIN fetch : ~Live(t)

\* C14: when a run has ended after a successful discovery call, every
\* range it planned has had its worker, which held a slot and either
\* returned or failed after max_retries attempts.
C14_EveryRangeResolves ==
    (Stopped /\ abortCause # "discovery") =>
        /\ Workers = 1..Len(pages)
        /\ \A t \in Workers :
              \/ fetch[t].pc = "done"
              \/ fetch[t].pc = "failed" /\ fetch[t].attempt = max_retries

(* ---------------------------------------------------------------------- *)
\* C15: with a total of zero (none reported and an empty discovery page) or
\* a total of at most one window, the plan is the open-ended one: its k-th
\* range (k = 0, 1, ...) is [W + k*W, W + (k+1)*W - 1], so the ranges are
\* contiguous from W on, and there are never more than max_safety_pages of
\* them.
C15_FallbackPlan ==
    (phase \in {"Planning", "Fetching"} /\ (total = 0 \/ total <= window)) =>
        /\ Len(pages) <= max_safety_pages
        /\ \A k \in 0..(Len(pages) - 1) :
              pages[k + 1] = << window + k * window, window + (k + 1) * window - 1 >>
        /\ \A k \in 1..(Len(pages) - 1) : pages[k + 1][1] = pages[k][2] + 1
        /\ phase = "Planning" => current = window + Len(pages) * window
        /\ phase = "Fetching" => PlanComplete

\* C15's case: the plan for a total of exactly one window of 48 is finished
\* and holds the source's 2000 ranges.
C15_Witness ==
    /\ phase = "Fetching"
    /\ window = 48
    /\ total = window
    /\ max_safety_pages = DefaultSafetyPages
    /\ Len(pages) = DefaultSafetyPages

(* ---------------------------------------------------------------------- *)
\* ranges a and b share no index
Disjoint(a, b) == a[2] < b[1] \/ b[2] < a[1]

\* C16: in the plan of either branch, being made or finished, every range
\* starts at W or later and is not empty, the discovery range and the
\* planned ranges are pairwise disjoint, and their artifacts have pairwise
\* different names: no index is asked for twice.
C16_NoRangeTwice ==
    /\ \A i \in 1..Len(pages) :
          /\ pages[i][1] >= window
          /\ pages[i][1] <= pages[i][2]
    /\ \A i, j \in 0..Len(pages) :
          i # j =>
             /\ Disjoint(PageOf(i), PageOf(j))
             /\ FileName(PageOf(i)) # FileName(PageOf(j))

\* C16's case: a finished plan for a known total of three full windows
\* besides the discovery range.
C16_Witness ==
    /\ phase = "Fetching"
    /\ KnownTotal
    /\ window >= 2
    /\ Len(pages) = 3
    /\ \A i \in 1..3 : Size(pages[i]) = window

(* ---------------------------------------------------------------------- *)
\* C17: planning ends with a finite plan for every window and total: the
\* known-total loop, which ends on reaching T-1, makes no more turns than
\* there are indices below T, and the fallback loop no more than
\* max_safety_pages.
C17_PlanIsFinite ==
    phase = "Planning" =>
        Len(pages) <= (IF KnownTotal THEN total ELSE max_safety_pages)

C19_SleepAfterEveryAttempt ==
    /\ [](\A t \in Workers :
            (phase = "Fetching" /\ fetch[t].pc = "sleep"
                /\ fetch[t].attempt = max_retries) =>
               /\ t \in InFlight
               /\ sem = concurrency - Cardinality(InFlight))
    /\ [][\A t \in DOMAIN fetch :
            /\ (fetch[t].pc = "attempt" /\ fetch'[t].pc # "attempt") =>
                  \/ fetch'[t].pc \in {"done", "cancelled"}
                  \/ /\ fetch'[t].pc = "sleep"
                     /\ fetch'[t].attempt = fetch[t].attempt
                     /\ fetch'[t].sleep_s >= 20
            /\ (fetch'[t].pc = "sleep" /\ fetch[t].pc # "sleep") =>
                  fetch[t].pc = "attempt"
            /\ (fetch'[t].pc = "failed" /\ fetch[t].pc # "failed") =>
                  /\ fetch[t].pc = "sleep"
                  /\ fetch[t].attempt = max_retries
                  /\ t \in Workers => sem' = sem + 1
            /\ (fetch[t].pc = "sleep" /\ fetch'[t].pc = "attempt") =>
                  fetch[t].attempt < max_retries]_vars

\* C19's case: with one slot, a worker is in the sleep that follows its
\* last attempt while another worker waits for the slot.
C19_Witness ==
    /\ phase = "Fetching"
    /\ concurrency = 1
    /\ sem = 0
    /\ \E t, u \in Workers :
          /\ fetch[t].pc = "sleep"
          /\ fetch[t].attempt = max_retries
          /\ fetch[u].pc = "sem_wait"

(* ---------------------------------------------------------------------- *)
\* the lines of products_all.jsonl that carry identifier id
LinesOf(id) == {k \in 1..Len(jsonl) : jsonl[k].productId = id}

\* the artifacts that hold a record with a falsy identifier
WithFalsy == {i \in DOMAIN files : \E a \in DOMAIN files[i] : files[i][a].productId = 0}

\* C20: once products_all.jsonl is written, no line and no member of `seen`
\* has a falsy identifier, every truthy identifier of a record of any
\* artifact (the discovery artifact included) is on exactly one line, every
\* line is a record of some artifact, and the manifest's unique count is
\* the number of lines.
C20_FalsyDroppedTruthyOnce ==
    phase \in {"Aggregating", "Done"} =>
        /\ LinesOf(0) = {}
        /\ 0 \notin seen
        /\ \A i \in DOMAIN files : \A a \in DOMAIN files[i] :
              files[i][a].productId # 0 =>
                 Cardinality(LinesOf(files[i][a].productId)) = 1
        /\ \A k \in 1..Len(jsonl) :
              \E i \in DOMAIN files : \E a \in DOMAIN files[i] : files[i][a] = jsonl[k]
        /\ phase = "Done" => manifest[1].unique_products = Len(jsonl)

\* C20's case: a finished run in which the discovery artifact and a range
\* artifact both hold a record with a falsy identifier, and a third
\* artifact holds an identifier the discovery artifact does not.
C20_Witness ==
    /\ phase = "Done"
    /\ 0 \in WithFalsy
    /\ Cardinality(WithFalsy) >= 2
    /\ \E i \in DOMAIN files \ WithFalsy : IdsOf(files[i]) \ IdsOf(files[0]) # {}

=============================================================================
